---------------------------- MODULE Spec2Model ----------------------------
(***************************************************************************)
(* A model of phaster.py: the tab-separated job database, the submission   *)
(* and status clients, the result download and the __main__ script that    *)
(* drives them.                                                            *)
(*                                                                         *)
(* A Python string is a sequence of tokens.  A token is a chunk of         *)
(* characters that holds no whitespace and no separator, or one of the     *)
(* characters the code looks for: tab, newline, space, '.' and '/'.        *)
(* A dict is the sequence of its entries in insertion order (CPython 3     *)
(* keeps that order, and db.items() is a live view of it).                 *)
(***************************************************************************)
EXTENDS Integers, Sequences, FiniteSets, TLC

VARIABLES
    dbFile,     \* the lines of the database file, each ending in a newline
    dbExists,   \* os.path.isfile(options.database)
    fs,         \* output directories: directory name -> (file name -> content)
    options,    \* the parsed command line of the running invocation
    db,         \* the dict of __main__: entries in insertion order
    pc,         \* position of the script
    err,        \* the exception that ended the invocation, or "none"
    idx,        \* position of the running for loop
    n0,         \* size of db when the status loop's iterator was created
    run,        \* number of invocations started
    log,        \* remote calls and sleeps of the running invocation, in order
    file0,      \* the lines of the database file when the invocation started
    resp        \* the remote answer handed to a single get_status call

vars == <<dbFile, dbExists, fs, options, db, pc, err, idx, n0, run, log, file0, resp>>

---------------------------------------------------------------------------
(* Bounds *)

MaxRuns == 2
MaxFasta == 2
MaxLines == 2

---------------------------------------------------------------------------
(* Strings *)

TAB == "\t"
NL == "\n"
SP == " "
DOT == "."
SLASH == "/"

Whitespace == {SP, TAB, NL}

RECURSIVE LStrip(_)
LStrip(s) ==
    IF s # <<>> /\ Head(s) \in Whitespace THEN LStrip(Tail(s)) ELSE s

RECURSIVE RStrip(_)
RStrip(s) ==
    IF s # <<>> /\ s[Len(s)] \in Whitespace
    THEN RStrip(SubSeq(s, 1, Len(s) - 1))
    ELSE s

\* str.strip()
Strip(s) == RStrip(LStrip(s))

\* str.split(sep): the pieces between the occurrences of sep
RECURSIVE Split(_, _)
Split(s, sep) ==
    IF \A i \in 1..Len(s) : s[i] # sep
    THEN <<s>>
    ELSE LET i == CHOOSE k \in 1..Len(s) :
                     s[k] = sep /\ \A j \in 1..(k - 1) : s[j] # sep
         IN  <<SubSeq(s, 1, i - 1)>> \o Split(SubSeq(s, i + 1, Len(s)), sep)

\* pat in s
Contains(s, pat) ==
    \E i \in 1..(Len(s) - Len(pat) + 1) : SubSeq(s, i, i + Len(pat) - 1) = pat

\* os.path.basename
Basename(path) == LET parts == Split(path, SLASH) IN parts[Len(parts)]

\* query_filename.split(".")[0]
QueryBasename(name) == Split(name, DOT)[1]

---------------------------------------------------------------------------
(* Literals of the code *)

Failed == <<"Failed">>
SubmissionFailed == <<"Submission failed">>
GetRequestFailed == <<"Get request failed">>
CompletedAndDownloaded == <<"Completed and downloaded">>
AheadPattern == <<"submissions ahead of yours">>
RunningPattern == <<"Running">>
SummarySuffix == <<".phaster_summary.txt">>
ZipSuffix == <<".phaster_results.zip">>
DefaultWait == 10

---------------------------------------------------------------------------
(* The dict db: job_id -> (filename, status, date) *)

Entry(job_id, filename, status, date) ==
    [job_id |-> job_id, filename |-> filename, status |-> status, date |-> date]

HasKey(d, k) == \E i \in 1..Len(d) : d[i].job_id = k

\* d[k] = (filename, status, date): an existing key keeps its place
DictSet(d, k, filename, status, date) ==
    IF HasKey(d, k)
    THEN [i \in 1..Len(d) |->
            IF d[i].job_id = k THEN Entry(k, filename, status, date) ELSE d[i]]
    ELSE Append(d, Entry(k, filename, status, date))

RECURSIVE DictFromLines(_, _)
DictFromLines(d, fields) ==
    IF fields = <<>> THEN d
    ELSE LET f == Head(fields)
         IN  DictFromLines(DictSet(d, f[2], f[1], f[3], f[4]), Tail(fields))

\* read_database: ValueError when a line does not unpack into four names
read_database(exists, lines) ==
    LET fields == [i \in 1..Len(lines) |-> Split(Strip(lines[i]), TAB)]
    IN  IF ~exists THEN [err |-> "none", db |-> <<>>]
        ELSE IF \E i \in 1..Len(lines) : Len(fields[i]) # 4
        THEN [err |-> "ValueError", db |-> <<>>]
        ELSE [err |-> "none", db |-> DictFromLines(<<>>, fields)]

\* "{}\t{}\t{}\t{}\n".format(filename, job_id, status, date)
FormatLine(e) ==
    e.filename \o <<TAB>> \o e.job_id \o <<TAB>> \o e.status \o <<TAB>>
        \o e.date \o <<NL>>

write_database(d) == [i \in 1..Len(d) |-> FormatLine(d[i])]

---------------------------------------------------------------------------
(* The remote service and the inputs of an invocation *)

JobIds == {<<"J1">>, <<"J2">>}

FastaFiles == {<<"a", DOT, "fa">>, <<"d", SLASH, "a", DOT, "gb">>, <<"b", DOT, "fa">>}

AheadStatus == <<"3", SP, "submissions ahead of yours">>
RunningStatus == <<"Running">>
CompleteStatus == <<"Complete">>
RemoteStatuses == {AheadStatus, RunningStatus, CompleteStatus}

SummaryOf(acc) == <<"summary of">> \o acc
ZipOf(acc) == <<"phaster.ca/submissions/">> \o acc \o <<".zip">>

\* An optional value: no value, or one of S
Opt(S) == {{}} \cup {{v} : v \in S}

\* A JSON object with the keys that are given a value
MkBody(js, ss, zs, ms) ==
    [k \in (IF js = {} THEN {} ELSE {"job_id"})
            \cup (IF ss = {} THEN {} ELSE {"status"})
            \cup (IF zs = {} THEN {} ELSE {"zip"})
            \cup (IF ms = {} THEN {} ELSE {"summary"}) |->
        CASE k = "job_id" -> CHOOSE v \in js : TRUE
          [] k = "status" -> CHOOSE v \in ss : TRUE
          [] k = "zip" -> CHOOSE v \in zs : TRUE
          [] k = "summary" -> CHOOSE v \in ms : TRUE]

\* Answers to the POST of submit_job
SubmitResponses ==
    {[code |-> 500, body |-> MkBody({}, {}, {}, {})]}
    \cup {[code |-> 200, body |-> MkBody(js, ss, {}, {})] :
            js \in Opt(JobIds), ss \in Opt({AheadStatus})}

\* Answers about job j to the GET of get_status, with the status code of the
\* answer to the GET of the zip file
AnswersAbout(j) ==
    {[code |-> 200, body |-> MkBody(js, ss, zs, ms), zip_code |-> zc] :
        js \in Opt({j}), ss \in Opt(RemoteStatuses),
        zs \in Opt({ZipOf(j)}), ms \in Opt({SummaryOf(j)}),
        zc \in {200, 404}}

\* The service may answer about another job than the one asked for
PollResponses ==
    {[code |-> 500, body |-> MkBody({}, {}, {}, {}), zip_code |-> 200]}
    \cup UNION {AnswersAbout(j) : j \in JobIds}

NoResp == [code |-> 0, body |-> MkBody({}, {}, {}, {}), zip_code |-> 0]

\* str(datetime.datetime.now()): every reading gives the same instant
Now == <<"2018-05-01", SP, "10:00:00">>

\* options.wait: the int default, or the str of the command line
Waits == {[type |-> "int", val |-> DefaultWait], [type |-> "str", val |-> 5]}

BoundedSeq(S, n) == UNION {[1..k -> S] : k \in 0..n}

\* The namespace parse_args returns (contigs, url and loglevel reach no branch)
Options ==
    {[fasta |-> f, get_status |-> g, wait |-> w] :
        f \in BoundedSeq(FastaFiles, MaxFasta), g \in BOOLEAN, w \in Waits}

NoOptions == [fasta |-> <<>>, get_status |-> FALSE,
              wait |-> [type |-> "int", val |-> DefaultWait]]

---------------------------------------------------------------------------
(* The clients *)

\* An entry of log: a request (POST, GET, ZIP) with whether its answer had
\* status code 200 and the status and keys of the JSON answer, a call of
\* download_and_write_results (DOWNLOAD), or a completed sleep (WAIT)
Event(op, arg, ok, status, keys) ==
    [op |-> op, arg |-> arg, ok |-> ok, status |-> status, keys |-> keys]

\* submit_job as it would be if a missing key were treated like a failed
\* submission instead of raising KeyError
submit_job_missing_key_tolerated(fasta_file, r) ==
    IF r.code # 200 \/ "job_id" \notin DOMAIN r.body \/ "status" \notin DOMAIN r.body
    THEN [err |-> "none", job_id |-> Failed, status |-> SubmissionFailed, date |-> Now]
    ELSE [err |-> "none", job_id |-> r.body["job_id"], status |-> r.body["status"],
          date |-> Now]

\* submit_job, given the answer r to its POST
submit_job(fasta_file, r) ==
    IF r.code # 200
    THEN [err |-> "none", job_id |-> Failed, status |-> SubmissionFailed, date |-> Now]
    ELSE IF "job_id" \notin DOMAIN r.body \/ "status" \notin DOMAIN r.body
    THEN [err |-> "KeyError", job_id |-> <<>>, status |-> <<>>, date |-> <<>>]
    ELSE [err |-> "none", job_id |-> r.body["job_id"], status |-> r.body["status"],
          date |-> Now]

WithDir(fsys, dir, files) ==
    [d \in (DOMAIN fsys) \cup {dir} |-> IF d = dir THEN files ELSE fsys[d]]

\* download_and_write_results, given the status code of the answer to the
\* GET of the zip file: what it raises, the directories it leaves, and
\* whether it issued the GET
download_and_write_results(response_dict, query_filename, fsys, zip_code) ==
    LET query_basename == QueryBasename(query_filename)
        summary_filename == query_basename \o SummarySuffix
        zip_filename == query_basename \o ZipSuffix
    IN  IF query_basename \in DOMAIN fsys
        THEN [raised |-> "none", fs |-> fsys, fetched |-> FALSE]
        ELSE IF "summary" \notin DOMAIN response_dict
        THEN [raised |-> "KeyError",
              fs |-> WithDir(fsys, query_basename, (summary_filename :> <<>>)),
              fetched |-> FALSE]
        ELSE LET summary == (summary_filename :> response_dict["summary"])
             IN  IF zip_code = 200
                 THEN [raised |-> "none",
                       fs |-> WithDir(fsys, query_basename,
                                summary @@
                                (zip_filename :> (<<"http://">> \o response_dict["zip"]))),
                       fetched |-> TRUE]
                 ELSE [raised |-> "IOError",
                       fs |-> WithDir(fsys, query_basename, summary),
                       fetched |-> TRUE]

\* The branch as it would be if the "zip" key were tested before the status
Finished_zip_first(r_dict) == "zip" \in DOMAIN r_dict

\* The branch of get_status that calls download_and_write_results
Finished(r_dict) ==
    /\ ~Contains(r_dict["status"], AheadPattern)
    /\ ~Contains(r_dict["status"], RunningPattern)
    /\ "zip" \in DOMAIN r_dict

\* get_status, given the answer r to its GET
get_status(accession, r, query_filename, fsys) ==
    LET get == Event("GET", accession, r.code = 200,
                     IF r.code = 200 /\ "status" \in DOMAIN r.body
                     THEN r.body["status"] ELSE <<>>,
                     DOMAIN r.body)
    IN  IF r.code # 200
        THEN [err |-> "none", job_id |-> accession, status |-> GetRequestFailed,
              date |-> Now, fs |-> fsys, calls |-> <<get>>]
        ELSE IF "status" \notin DOMAIN r.body
        THEN [err |-> "KeyError", job_id |-> <<>>, status |-> <<>>, date |-> <<>>,
              fs |-> fsys, calls |-> <<get>>]
        ELSE LET r_dict == r.body
                 dl == IF Finished(r_dict)
                       THEN download_and_write_results(r_dict, query_filename, fsys,
                                                       r.zip_code)
                       ELSE [raised |-> "none", fs |-> fsys, fetched |-> FALSE]
                 job_status == IF Finished(r_dict) /\ dl.raised = "none"
                               THEN CompletedAndDownloaded
                               ELSE r_dict["status"]
                 calls == <<get>>
                          \o (IF Finished(r_dict)
                              THEN <<Event("DOWNLOAD", accession, TRUE, <<>>, {})>>
                              ELSE <<>>)
                          \o (IF dl.fetched
                              THEN <<Event("ZIP", accession, r.zip_code = 200, <<>>, {})>>
                              ELSE <<>>)
             IN  IF dl.raised = "KeyError" \/ "job_id" \notin DOMAIN r_dict
                 THEN [err |-> "KeyError", job_id |-> <<>>, status |-> <<>>,
                       date |-> <<>>, fs |-> dl.fs, calls |-> calls]
                 ELSE [err |-> "none", job_id |-> r_dict["job_id"],
                       status |-> job_status, date |-> Now, fs |-> dl.fs,
                       calls |-> calls]

---------------------------------------------------------------------------
(* The script: one invocation after another *)

Init ==
    /\ dbFile = <<>>
    /\ dbExists = FALSE
    /\ fs = <<>>
    /\ options = NoOptions
    /\ db = <<>>
    /\ pc = "idle"
    /\ err = "none"
    /\ idx = 0
    /\ n0 = 0
    /\ run = 0
    /\ log = <<>>
    /\ file0 = <<>>
    /\ resp = NoResp

Exited == pc \in {"idle", "done", "crashed"}

\* An uncaught exception ends the invocation
Raise(e) == pc' = "crashed" /\ err' = e

\* The next() of the iterator of db.items() after entry i: a dict whose size
\* changed since the iterator was made raises RuntimeError
StatusNext(d, i) ==
    IF Len(d) # n0 THEN Raise("RuntimeError") /\ idx' = i
    ELSE IF i + 1 > Len(d) THEN pc' = "write" /\ err' = err /\ idx' = i
    ELSE pc' = "poll" /\ err' = err /\ idx' = i + 1

\* parse_args with no argument at all: print_help and exit(1)
PrintHelp ==
    /\ Exited /\ run < MaxRuns
    /\ run' = run + 1
    /\ options' = NoOptions
    /\ pc' = "done" /\ err' = "none"
    /\ db' = <<>> /\ idx' = 0 /\ n0' = 0 /\ log' = <<>>
    /\ file0' = dbFile
    /\ UNCHANGED <<dbFile, dbExists, fs, resp>>

\* parse_args, read_database and the branch __main__ takes
Start(o) ==
    /\ Exited
    /\ LET rd == read_database(dbExists, dbFile)
           lines == IF dbExists THEN dbFile ELSE <<>>
       IN  /\ dbExists' = TRUE
           /\ dbFile' = lines
           /\ file0' = lines
           /\ options' = o
           /\ log' = <<>>
           /\ db' = rd.db
           /\ n0' = Len(rd.db)
           /\ IF rd.err # "none" THEN Raise(rd.err) /\ idx' = 0
              ELSE IF o.fasta # <<>> THEN pc' = "submit" /\ err' = "none" /\ idx' = 1
              ELSE IF o.get_status /\ rd.db # <<>>
              THEN pc' = "poll" /\ err' = "none" /\ idx' = 1
              ELSE pc' = "write" /\ err' = "none" /\ idx' = 0
    /\ UNCHANGED <<fs, resp>>

NewRun ==
    /\ run < MaxRuns
    /\ run' = run + 1
    /\ \E o \in Options : Start(o)

\* submit_job cannot open the fasta file: IOError before any request
SubmitUnreadable ==
    /\ pc = "submit"
    /\ Raise("IOError")
    /\ UNCHANGED <<dbFile, dbExists, fs, options, db, idx, n0, run, log, file0, resp>>

\* One pass of the --fasta loop up to its sleep
SubmitWith(r) ==
    LET fasta == options.fasta[idx]
        s == submit_job(fasta, r)
    IN  /\ log' = Append(log, Event("POST", fasta, r.code = 200, <<>>, DOMAIN r.body))
        /\ IF s.err # "none"
           THEN Raise(s.err) /\ db' = db
           ELSE /\ db' = DictSet(db, s.job_id, fasta, s.status, s.date)
                /\ pc' = "sleep" /\ err' = err
        /\ UNCHANGED <<dbFile, dbExists, fs, options, idx, n0, run, file0, resp>>

SubmitStep ==
    /\ pc = "submit"
    /\ \E r \in SubmitResponses : SubmitWith(r)

\* time.sleep(options.wait), then the loop goes on or ends
Sleep ==
    /\ pc = "sleep"
    /\ IF options.wait.type # "int"
       THEN Raise("TypeError") /\ idx' = idx /\ log' = log
       ELSE /\ log' = Append(log, Event("WAIT", <<>>, TRUE, <<>>, {}))
            /\ IF options.fasta # <<>>
               THEN /\ idx' = idx + 1
                    /\ pc' = IF idx + 1 > Len(options.fasta) THEN "write" ELSE "submit"
                    /\ err' = err
               ELSE StatusNext(db, idx)
    /\ UNCHANGED <<dbFile, dbExists, fs, options, db, n0, run, file0, resp>>

\* if job_id == "Failed": continue
SkipFailed ==
    /\ pc = "poll"
    /\ db[idx].job_id = Failed
    /\ StatusNext(db, idx)
    /\ UNCHANGED <<dbFile, dbExists, fs, options, db, n0, run, log, file0, resp>>

\* One pass of the --get-status loop up to its sleep
PollWith(r) ==
    LET e == db[idx]
        g == get_status(e.job_id, r, Basename(e.filename), fs)
    IN  /\ log' = log \o g.calls
        /\ fs' = g.fs
        /\ IF g.err # "none"
           THEN Raise(g.err) /\ db' = db
           ELSE /\ db' = DictSet(db, g.job_id, e.filename, g.status, g.date)
                /\ pc' = "sleep" /\ err' = err
        /\ UNCHANGED <<dbFile, dbExists, options, idx, n0, run, file0, resp>>

PollStep ==
    /\ pc = "poll"
    /\ db[idx].job_id # Failed
    /\ \E r \in PollResponses : PollWith(r)

WriteDatabase ==
    /\ pc = "write"
    /\ dbFile' = write_database(db)
    /\ pc' = "done"
    /\ UNCHANGED <<dbExists, fs, options, db, err, idx, n0, run, log, file0, resp>>

Next ==
    \/ PrintHelp
    \/ NewRun
    \/ SubmitUnreadable
    \/ SubmitStep
    \/ Sleep
    \/ SkipFailed
    \/ PollStep
    \/ WriteDatabase

Spec == Init /\ [][Next]_vars

---------------------------------------------------------------------------
(* One invocation, started on a database and output directories that       *)
(* earlier invocations left                                                *)

\* The entry an earlier --fasta invocation left under key k
Submitted(k) ==
    CASE k = <<"J1">> -> Entry(k, <<"a", DOT, "fa">>, AheadStatus, Now)
      [] k = <<"J2">> -> Entry(k, <<"d", SLASH, "a", DOT, "gb">>, AheadStatus, Now)
      [] k = Failed -> Entry(k, <<"b", DOT, "fa">>, SubmissionFailed, Now)

LeftDicts ==
    {[i \in 1..Len(ks) |-> Submitted(ks[i])] :
        ks \in {q \in BoundedSeq(JobIds \cup {Failed}, MaxLines) :
                    \A i, j \in 1..Len(q) : i # j => q[i] # q[j]}}

\* No output directory, or the directory of a download whose zip request failed
LeftDirs ==
    {<<>>, (<<"a">> :> (<<"a", ".phaster_summary.txt">> :> SummaryOf(<<"J1">>)))}

InitRun ==
    /\ dbFile \in {write_database(d) : d \in LeftDicts}
    /\ dbExists \in {TRUE, dbFile # <<>>}
    /\ fs \in LeftDirs
    /\ options = NoOptions
    /\ db = <<>>
    /\ pc = "idle"
    /\ err = "none"
    /\ idx = 0
    /\ n0 = 0
    /\ run = 0
    /\ log = <<>>
    /\ file0 = <<>>
    /\ resp = NoResp

OneRun ==
    /\ run = 0
    /\ run' = 1
    /\ \E o \in Options : Start(o)

NextRun ==
    \/ OneRun
    \/ SubmitUnreadable
    \/ SubmitStep
    \/ Sleep
    \/ SkipFailed
    \/ PollStep
    \/ WriteDatabase

SpecRun == InitRun /\ [][NextRun]_vars

---------------------------------------------------------------------------
(* One --get-status invocation on a database of one job, whose single      *)
(* get_status call is handed the answer resp                               *)

DownloadedDir ==
    (<<"a">> :> ((<<"a", ".phaster_summary.txt">> :> SummaryOf(<<"J1">>))
                 @@ (<<"a", ".phaster_results.zip">> :>
                        (<<"http://">> \o ZipOf(<<"J1">>)))))

InitPoll ==
    /\ dbFile \in {write_database(<<Submitted(k)>>) : k \in JobIds}
    /\ dbExists = TRUE
    /\ fs \in LeftDirs \cup {DownloadedDir}
    /\ options = NoOptions
    /\ db = <<>>
    /\ pc = "idle"
    /\ err = "none"
    /\ idx = 0
    /\ n0 = 0
    /\ run = 0
    /\ log = <<>>
    /\ file0 = <<>>
    /\ resp \in PollResponses

StartStatus ==
    /\ run = 0
    /\ run' = 1
    /\ \E o \in Options : o.fasta = <<>> /\ o.get_status /\ Start(o)

PollOnce ==
    /\ pc = "poll"
    /\ db[idx].job_id # Failed
    /\ PollWith(resp)

NextPoll ==
    \/ StartStatus
    \/ PollOnce
    \/ Sleep
    \/ WriteDatabase

SpecPoll == InitPoll /\ [][NextPoll]_vars

---------------------------------------------------------------------------
(* One invocation with neither --fasta nor --get-status on a database file *)
(* of lines of four tab-separated fields                                   *)

FieldVals == {<<>>, <<"x">>, <<SP, "x", SP>>}

LedgerLines ==
    {f[1] \o <<TAB>> \o f[2] \o <<TAB>> \o f[3] \o <<TAB>> \o f[4] \o <<NL>> :
        f \in [1..4 -> FieldVals]}

InitLedger ==
    /\ dbFile \in BoundedSeq(LedgerLines, MaxLines)
    /\ dbExists = TRUE
    /\ fs = <<>>
    /\ options = NoOptions
    /\ db = <<>>
    /\ pc = "idle"
    /\ err = "none"
    /\ idx = 0
    /\ n0 = 0
    /\ run = 0
    /\ log = <<>>
    /\ file0 = <<>>
    /\ resp = NoResp

StartPlain ==
    /\ run = 0
    /\ run' = 1
    /\ \E o \in Options : o.fasta = <<>> /\ ~o.get_status /\ Start(o)

NextLedger ==
    \/ StartPlain
    \/ WriteDatabase

SpecLedger == InitLedger /\ [][NextLedger]_vars

---------------------------------------------------------------------------
(* Vocabulary of the properties *)

\* The four fields of a line of the database file, as the format gives them
FieldsOf(line) == Split(SubSeq(line, 1, Len(line) - 1), TAB)

Records(lines) == {FieldsOf(lines[i]) : i \in 1..Len(lines)}

\* The dict the invocation loaded
Loaded == read_database(TRUE, file0).db

FastaRun == options.fasta # <<>>
StatusRun == options.fasta = <<>> /\ options.get_status

IsCall(e) == e.op \in {"POST", "GET", "ZIP"}

NumPolls(acc) ==
    Cardinality({i \in 1..Len(log) : log[i].op = "GET" /\ log[i].arg = acc})

\* An answer with status code 200 whose JSON lacks job_id or status
Malformed(e) ==
    e.op \in {"POST", "GET"} /\ e.ok /\ ~({"job_id", "status"} \subseteq e.keys)

OutputDir(filename) == QueryBasename(Basename(filename))

---------------------------------------------------------------------------
(* Properties *)

\* C1: when a --fasta invocation has written the database, every input file
\* whose submission was answered with a status code other than 200 has a
\* line there with its name, job id "Failed" and status "Submission failed".
C1_FailedSubmissionsRecorded ==
    (FastaRun /\ pc = "done") =>
        \A i \in 1..Len(log) :
            (log[i].op = "POST" /\ ~log[i].ok) =>
                \E f \in Records(dbFile) :
                    f[1] = log[i].arg /\ f[2] = Failed /\ f[3] = SubmissionFailed

\* C2: a get_status call answered 200 with a "zip" key and a status holding
\* neither "submissions ahead of yours" nor "Running", while the output
\* directory exists, leaves the directories as they are and stores the
\* status of the answer.
C2_ExistingDirKeepsRemoteStatus ==
    [][(/\ pc = "poll"
        /\ pc' = "sleep"
        /\ resp.code = 200
        /\ "zip" \in DOMAIN resp.body
        /\ ~Contains(resp.body["status"], AheadPattern)
        /\ ~Contains(resp.body["status"], RunningPattern)
        /\ OutputDir(db[idx].filename) \in DOMAIN fs)
       => (/\ fs' = fs
           /\ \E k \in 1..Len(db') :
                /\ db'[k].job_id = resp.body["job_id"]
                /\ db'[k].status = resp.body["status"])]_vars

\* C3: in a --get-status invocation in which a zip request was answered
\* with another status code than 200 (and no answer lacked a key), the
\* error is caught: the entry keeps the status of the answer, every entry
\* of the loaded database but "Failed" is polled and the database is written.
C3_ZipFailureIsolated ==
    (/\ StatusRun
     /\ err # "KeyError"
     /\ \E i \in 1..Len(log) : log[i].op = "ZIP" /\ ~log[i].ok)
    => (/\ pc # "crashed"
        /\ (log[Len(log)].op = "ZIP" /\ ~log[Len(log)].ok) =>
              (/\ pc = "sleep"
               /\ \E k \in 1..Len(db) : db[k].status = log[Len(log) - 2].status)
        /\ pc = "done" =>
              (/\ \A k \in 1..Len(Loaded) :
                     Loaded[k].job_id # Failed => NumPolls(Loaded[k].job_id) >= 1
               /\ dbFile = write_database(db)))

\* C5: a --get-status invocation whose answers all carry the expected keys
\* ends by writing the database, having polled each entry it loaded exactly
\* once, but the entry "Failed", which it does not poll and writes back as
\* it was.
C5_OnePollPerEntry ==
    (StatusRun /\ err # "KeyError")
    => (/\ pc # "crashed"
        /\ pc = "done" =>
              \A k \in 1..Len(Loaded) :
                  IF Loaded[k].job_id = Failed
                  THEN /\ NumPolls(Failed) = 0
                       /\ \E l \in 1..Len(dbFile) : dbFile[l] = FormatLine(Loaded[k])
                  ELSE NumPolls(Loaded[k].job_id) = 1)

\* C6: between two requests of an invocation there is a completed sleep.
C6_WaitBetweenCalls ==
    \A i, j \in 1..Len(log) :
        (i < j /\ IsCall(log[i]) /\ IsCall(log[j])) =>
            \E k \in (i + 1)..(j - 1) : log[k].op = "WAIT"

\* C7: an invocation with neither --fasta nor --get-status sends no request
\* and leaves, in a database file whose lines have four tab-separated
\* fields, the set of records that was there.
C7_PlainRunKeepsRecords ==
    (~FastaRun /\ ~StatusRun /\ pc \in {"write", "done", "crashed"})
    => (/\ log = <<>>
        /\ pc # "crashed"
        /\ pc = "done" => Records(dbFile) = Records(file0))

\* C8: read_database turns a line of four tab-separated fields into the
\* entry of exactly these fields (for a job id that no other line holds).
C8_LoadKeepsFields ==
    (pc \in {"write", "crashed"} /\ ~FastaRun /\ ~StatusRun)
    => (/\ err = "none"
        /\ \A i \in 1..Len(file0) :
              LET f == FieldsOf(file0[i])
              IN  (\A j \in 1..Len(file0) : j # i => FieldsOf(file0[j])[2] # f[2])
                  => \E k \in 1..Len(db) : db[k] = Entry(f[2], f[1], f[3], f[4]))

\* C9: every job the database file gives the status "Completed and
\* downloaded" has the output directory named from its file name, holding
\* the summary and the results archive of that job.
C9_CompletedHasResults ==
    \A f \in Records(dbFile) :
        f[3] = CompletedAndDownloaded =>
            LET dir == OutputDir(f[1])
            IN  /\ dir \in DOMAIN fs
                /\ (dir \o SummarySuffix) \in DOMAIN fs[dir]
                /\ fs[dir][dir \o SummarySuffix] = SummaryOf(f[2])
                /\ (dir \o ZipSuffix) \in DOMAIN fs[dir]
                /\ fs[dir][dir \o ZipSuffix] = <<"http://">> \o ZipOf(f[2])


\* The get_status call of the invocation is answered 200 with a status
PollAnswered ==
    /\ pc = "poll"
    /\ resp.code = 200
    /\ "status" \in DOMAIN resp.body

\* The classification C4 states, written out on the answer
ZipAndNeitherPattern ==
    /\ ~Contains(resp.body["status"], AheadPattern)
    /\ ~Contains(resp.body["status"], RunningPattern)
    /\ "zip" \in DOMAIN resp.body

DownloadCalled == \E i \in 1..Len(log) : log[i].op = "DOWNLOAD"

\* get_status returned the job id and the status of the answer
ReturnedRemoteStatus ==
    /\ pc = "sleep"
    /\ \E k \in 1..Len(db) :
          /\ db[k].job_id = resp.body["job_id"]
          /\ db[k].status = resp.body["status"]

\* C4 as stated: for every answer with status code 200 (and a status),
\* download_and_write_results is called exactly when the status holds
\* neither pattern and the answer has a "zip" key, and when it is not
\* called get_status returns the status of the answer and no directory or
\* file is made.
C4_ClassificationEveryAnswer ==
    [][(PollAnswered /\ pc' # "poll")
       => (/\ DownloadCalled' <=> ZipAndNeitherPattern
           /\ ~ZipAndNeitherPattern => (fs' = fs /\ ReturnedRemoteStatus'))]_vars

\* C4 as amended: the same, but get_status returns the status of the answer
\* only when the answer also has a "job_id" key.
C4_Classification ==
    [][(PollAnswered /\ pc' # "poll")
       => (/\ DownloadCalled' <=> ZipAndNeitherPattern
           /\ ~ZipAndNeitherPattern =>
                 /\ fs' = fs
                 /\ "job_id" \in DOMAIN resp.body => ReturnedRemoteStatus')]_vars

\* C4 witness: an answer with a "zip" key and the status "Running" was
\* passed through: no download, no directory, the status stored.
C4_Witness ==
    /\ pc = "sleep"
    /\ resp.code = 200
    /\ "zip" \in DOMAIN resp.body
    /\ "status" \in DOMAIN resp.body
    /\ resp.body["status"] = RunningStatus
    /\ ~DownloadCalled
    /\ fs = <<>>
    /\ \E k \in 1..Len(db) : db[k].status = RunningStatus

\* C10 as stated: once an answer with status code 200 lacks job_id or
\* status, the invocation has ended with KeyError, no request follows that
\* answer and the database file is as it was when the invocation started.
C10_NoCallAfterMalformed ==
    \A i \in 1..Len(log) :
        Malformed(log[i]) =>
            /\ pc = "crashed" /\ err = "KeyError"
            /\ dbFile = file0
            /\ \A j \in (i + 1)..Len(log) : ~IsCall(log[j])

\* C10 as amended: the same, but the one request that can follow the answer
\* is the zip request of the get_status call that received it (an answer
\* that lacks only job_id sets off the download before the KeyError).
C10_MalformedEndsRun ==
    \A i \in 1..Len(log) :
        Malformed(log[i]) =>
            /\ pc = "crashed" /\ err = "KeyError"
            /\ dbFile = file0
            /\ \A j \in (i + 1)..Len(log) :
                  /\ log[j].op \in {"DOWNLOAD", "ZIP"}
                  /\ log[j].arg = log[i].arg
                  /\ log[i].op = "GET"
            /\ Cardinality({j \in (i + 1)..Len(log) : IsCall(log[j])}) <= 1

\* C10 witness: a submission answered without job_id ended the invocation
\* after an earlier submission had succeeded; the database file still holds
\* what it held, so the earlier job is not recorded.
C10_Witness ==
    /\ pc = "crashed" /\ err = "KeyError"
    /\ Len(log) = 3
    /\ log[1].op = "POST" /\ log[1].ok /\ ~Malformed(log[1])
    /\ log[3].op = "POST" /\ Malformed(log[3])
    /\ Len(db) = Len(Loaded) + 1
    /\ dbFile = file0

====
